---- MODULE Spec2Model ----
(***************************************************************************)
(* Model of .github/scripts/process_cv.py: the text cleaner, the ordered   *)
(* PDF fallback chain, the DOCX and DOC extractors, and process_file with  *)
(* its temporary file, result record, callback and exit code.              *)
(*                                                                         *)
(* Text is a sequence of one-character strings.  File names, extensions,   *)
(* content types and error messages are strings.                           *)
(***************************************************************************)
EXTENDS Integers, Sequences, FiniteSets, TLC

\* ------------------------------------------------------------------ bounds
\* Largest number of pages a PDF backend reads before it ends or raises.
MaxPages == 2
\* Longest input string given to clean_text in SpecClean.
MaxLen == 5

\* ------------------------------------------------------- character classes
\* Characters of the modelled alphabet: a word character, two whitespace
\* characters, a character outside the whitelist, a whitelisted punctuation.
Chars == {"a", " ", "\n", "#", "."}

\* \s of the regular expressions, and what str.strip() strips.
IsSpace(c) == c \in {" ", "\n"}

\* \w of the regular expressions.
IsWord(c) == c \in {"a"}

\* The punctuation that the character class of line 120 keeps.
IsPunct(c) == c \in {"."}

\* [\w\s\-\.,;:()\[\]] : the characters the second substitution keeps.
Whitelisted(c) == IsWord(c) \/ IsSpace(c) \/ IsPunct(c)

\* ------------------------------------------------------------- clean_text
RECURSIVE LStrip(_)
LStrip(t) ==
  IF t = <<>> THEN <<>>
  ELSE IF IsSpace(Head(t)) THEN LStrip(Tail(t)) ELSE t

RECURSIVE RStrip(_)
RStrip(t) ==
  IF t = <<>> THEN <<>>
  ELSE IF IsSpace(t[Len(t)]) THEN RStrip(SubSeq(t, 1, Len(t) - 1)) ELSE t

\* str.strip()
Strip(t) == RStrip(LStrip(t))

\* re.sub(r'\s+', ' ', text): every maximal whitespace run becomes one space.
RECURSIVE CollapseWhitespace(_)
CollapseWhitespace(t) ==
  IF t = <<>> THEN <<>>
  ELSE IF IsSpace(Head(t))
       THEN <<" ">> \o CollapseWhitespace(LStrip(Tail(t)))
       ELSE <<Head(t)>> \o CollapseWhitespace(Tail(t))

\* re.sub(r'[^\w\s\-\.,;:()\[\]]+', '', text): runs of other characters go.
RemoveSpecial(t) == SelectSeq(t, Whitelisted)

clean_text(text) == Strip(RemoveSpecial(CollapseWhitespace(text)))

\* All texts over Chars of length at most n.
TextsUpTo(n) == UNION {[1..k -> Chars] : k \in 0..n}

\* ------------------------------------------------------------ the inputs
\* os.path.splitext(urlparse(file_url).path)[1] for the URLs considered.
UrlExtensions == {"", ".pdf", ".PDF", ".docx", ".doc", ".txt"}

\* Replies to requests.head: it raises, or it carries a content-type header
\* (a missing header reads as '').
ContentTypes ==
  {"application/pdf", "Application/PDF",
   "application/vnd.openxmlformats-officedocument.wordprocessingml.document",
   "application/msword", "text/html", ""}
HeadReplies ==
  {[raised |-> TRUE, content_type |-> ""]}
    \cup {[raised |-> FALSE, content_type |-> c] : c \in ContentTypes}

\* What page.extract_text() returns for one page (<<>> stands for None or '').
PageTexts == {<<>>, <<"a">>, <<"#">>, <<" ">>}

\* One run of a page-by-page backend on the file: the pages it read, in
\* order, and whether it then raised (opening the file included).
BackendRuns ==
  [pages : UNION {[1..k -> PageTexts] : k \in 0..MaxPages}, raised : BOOLEAN]

\* One run of an external tool (pdftotext, antiword) through subprocess.run.
Stdouts == {<<>>, <<" ">>, <<"a">>, <<"#">>, <<"a", "\n", "#", " ", "a">>}
ToolRuns ==
  {[raised |-> TRUE, returncode |-> 1, stdout |-> <<>>]}
    \cup [raised : {FALSE}, returncode : {0, 1}, stdout : Stdouts]

\* DOCX documents: paragraphs, and tables as rows of cells.
ParagraphTexts == {<<>>, <<"a">>, <<"#">>}
DocxDocuments ==
  [paragraphs : UNION {[1..k -> ParagraphTexts] : k \in 0..2},
   tables : {<<>>, << << <<<<"a">>, <<".">>>> >> >>},
   raised : BOOLEAN]

\* Replies of the time service: the request raises, or utc_datetime.
TimeReplies == {"raise", "2024-01-01T00:00:00+00:00"}

\* Outcomes of the callback POST.
CallbackOutcomes == {"2xx", "non2xx", "raise"}

\* Outcomes of download_file: True, or False before or after open() ran.
DownloadOutcomes == {"ok", "failed_before_open", "failed_after_open"}

ApplicationId == "app-1"

\* The name NamedTemporaryFile gives the file it creates.
TmpName == "/tmp/tmpfile"

\* ---------------------------------------------------------------- state
VARIABLES
  pc,              \* position in the script
  url_ext,         \* extension of the URL path as written
  file_extension,  \* process_file's file_extension
  tmp_filename,    \* process_file's tmp_filename
  files,           \* names of the files on disk
  head_requests,   \* number of HEAD requests sent
  probe,           \* the reply to the HEAD request, if one was sent
  downloaded,      \* "none", or the outcome of download_file
  text,            \* extract_text_from_pdf's local text
  plumber,         \* the run of pdfplumber, if it ran
  pypdf,           \* the run of PyPDF2, if it ran
  pdftotext,       \* the run of pdftotext, if it ran
  invoked,         \* the extraction backends invoked so far
  extracted_text,  \* process_file's extracted_text
  exc,             \* message of the exception the try block raised
  uncaught,        \* an exception is propagating out of process_file
  result,          \* process_file's result
  posted,          \* bodies of the callback POSTs attempted
  returned,        \* what process_file returned
  exit_code,       \* the exit status of the script
  cpc,             \* position of the cleaner harness
  clean_in,        \* input given to clean_text
  clean_once,      \* clean_text(clean_in)
  clean_twice      \* clean_text(clean_text(clean_in))

procVars ==
  <<pc, url_ext, file_extension, tmp_filename, files, head_requests, probe,
    downloaded, text, plumber, pypdf, pdftotext, invoked, extracted_text,
    exc, uncaught, result, posted, returned, exit_code>>
cleanVars == <<cpc, clean_in, clean_once, clean_twice>>
vars == <<procVars, cleanVars>>

\* Markers for "not set".
NotRun == [ran |-> FALSE]
NoResult == [absent |-> TRUE]

\* ------------------------------------------------------------- helpers
\* str.lower() on the extensions and content types considered.
Lower(s) ==
  CASE s = ".PDF" -> ".pdf"
    [] s = "Application/PDF" -> "application/pdf"
    [] OTHER -> s

\* needle in haystack
Contains(haystack, needle) ==
  \E i \in 1..(Len(haystack) - Len(needle) + 1) :
    SubSeq(haystack, i, i + Len(needle) - 1) = needle

\* The extension process_file derives from a lower-cased content type.
ExtensionOfContentType(content_type) ==
  IF Contains(content_type, "pdf") THEN ".pdf"
  ELSE IF Contains(content_type, "wordprocessingml") THEN ".docx"
  ELSE IF Contains(content_type, "msword") THEN ".doc"
  ELSE ""

\* The loop shared by the two page-by-page backends:
\*   for page in pages: if page_text: text += page_text + "\n"
RECURSIVE AppendPages(_, _)
AppendPages(t, pages) ==
  IF pages = <<>> THEN t
  ELSE AppendPages(IF Head(pages) # <<>> THEN t \o Head(pages) \o <<"\n">> ELSE t,
                   Tail(pages))

\* text.strip() is truthy
NonBlank(t) == Strip(t) # <<>>

RECURSIVE Concat(_, _)
\* text after appending each element of ts followed by sep
Concat(ts, sep) ==
  IF ts = <<>> THEN <<>> ELSE Head(ts) \o sep \o Concat(Tail(ts), sep)

RECURSIVE RowsText(_)
RowsText(rows) ==
  IF rows = <<>> THEN <<>>
  ELSE Concat(Head(rows), <<" ">>) \o <<"\n">> \o RowsText(Tail(rows))

RECURSIVE TablesText(_)
TablesText(tables) ==
  IF tables = <<>> THEN <<>>
  ELSE RowsText(Head(tables)) \o TablesText(Tail(tables))

\* extract_text_from_docx
extract_text_from_docx(doc) ==
  IF doc.raised THEN <<>>
  ELSE clean_text(Concat(doc.paragraphs, <<"\n">>) \o TablesText(doc.tables))

\* extract_text_from_doc
extract_text_from_doc(run) ==
  IF ~run.raised /\ run.returncode = 0 THEN clean_text(run.stdout) ELSE <<>>

\* Error messages.
DownloadError == "Failed to download file"
UnsupportedError(ext) == "Unsupported file type: " \o ext
NoTextError == "No text could be extracted from the file"
TimeServiceError == "time service request failed"

ProcessingInfo(timestamp) == [method |-> "github_actions", timestamp |-> timestamp]

\* The result of the try block.
SuccessResult(t, ext, timestamp) ==
  [success |-> TRUE, application_id |-> ApplicationId, extracted_text |-> t,
   file_type |-> ext, text_length |-> Len(t),
   processing_info |-> ProcessingInfo(timestamp)]

\* The result of the except block.
FailureResult(message, timestamp) ==
  [success |-> FALSE, application_id |-> ApplicationId, error |-> message,
   processing_info |-> ProcessingInfo(timestamp)]

\* An emptiness test that lets every text through (not the code).
NoTextExtractedNever(t) == FALSE

\* `if not extracted_text.strip()`
NoTextExtracted(t) == ~NonBlank(t)

\* A selection without the else branch: anything else goes to antiword
\* (not the code).
ExtractorForNoElse(ext) ==
  CASE ext = ".pdf" -> "pdf"
    [] ext = ".docx" -> "docx"
    [] OTHER -> "doc"

\* The extractor process_file selects for an extension.
ExtractorFor(ext) ==
  CASE ext = ".pdf" -> "pdf"
    [] ext = ".docx" -> "docx"
    [] ext = ".doc" -> "doc"
    [] OTHER -> "unsupported"

\* A return value that a failed callback turns into a failure (not the code).
ReturnValueCallbackFailure(r, outcome) ==
  IF outcome = "2xx" THEN r ELSE FailureResult("Callback failed", "")

\* What process_file returns after the callback step.
ReturnValue(r, outcome) == r

\* The exit status main gives a returned result.
ExitStatus(r) == IF r.success THEN 0 ELSE 1

\* ------------------------------------------------------------------ Init
InitProc ==
  /\ pc = "start"
  /\ url_ext = ""
  /\ file_extension = ""
  /\ tmp_filename = ""
  /\ files = {}
  /\ head_requests = 0
  /\ probe = NotRun
  /\ downloaded = "none"
  /\ text = <<>>
  /\ plumber = NotRun
  /\ pypdf = NotRun
  /\ pdftotext = NotRun
  /\ invoked = {}
  /\ extracted_text = <<>>
  /\ exc = ""
  /\ uncaught = FALSE
  /\ result = NoResult
  /\ posted = <<>>
  /\ returned = NoResult
  /\ exit_code = NotRun

IdleClean ==
  /\ cpc = "idle"
  /\ clean_in = <<>>
  /\ clean_once = <<>>
  /\ clean_twice = <<>>

Init == InitProc /\ IdleClean

\* --------------------------------------------------------------- actions
\* __main__ with a wrong number of arguments: usage message, exit 1.
BadInvocation ==
  /\ pc = "start"
  /\ \E argc \in {4, 6} : argc # 5
  /\ pc' = "exited"
  /\ exit_code' = 1
  /\ UNCHANGED <<url_ext, file_extension, tmp_filename, files, head_requests,
                 probe, downloaded, text, plumber, pypdf, pdftotext, invoked,
                 extracted_text, exc, uncaught, result, posted, returned>>
  /\ UNCHANGED cleanVars

\* process_file up to the HEAD request: NamedTemporaryFile creates the file,
\* the extension of the URL path is lower-cased and, when there is one,
\* appended to tmp_filename.
CreateTempFile ==
  /\ pc = "start"
  /\ \E e \in UrlExtensions :
       /\ url_ext' = e
       /\ file_extension' = Lower(e)
       /\ files' = files \cup {TmpName}
       /\ IF Lower(e) = ""
            THEN /\ tmp_filename' = TmpName
                 /\ pc' = "probe"
            ELSE /\ tmp_filename' = TmpName \o Lower(e)
                 /\ pc' = "download"
  /\ UNCHANGED <<head_requests, probe, downloaded, text, plumber, pypdf,
                 pdftotext, invoked, extracted_text, exc, uncaught, result,
                 posted, returned, exit_code>>
  /\ UNCHANGED cleanVars

\* A probe that is sent again after it raised (not the code).
AfterProbeRetry(reply) == IF reply.raised THEN "probe" ELSE "download"

\* Where process_file goes after the HEAD request.
AfterProbe(reply) == "download"

\* The HEAD request and the rest of the with block.
ProbeContentType ==
  /\ pc = "probe"
  /\ \E reply \in HeadReplies :
       LET ext == IF reply.raised THEN ""
                  ELSE ExtensionOfContentType(Lower(reply.content_type))
       IN /\ probe' = reply
          /\ head_requests' = head_requests + 1
          /\ file_extension' = ext
          /\ tmp_filename' = IF ext # "" THEN TmpName \o ext ELSE TmpName
          /\ pc' = AfterProbe(reply)
  /\ UNCHANGED <<url_ext, files, downloaded, text, plumber, pypdf, pdftotext,
                 invoked, extracted_text, exc, uncaught, result, posted,
                 returned, exit_code>>
  /\ UNCHANGED cleanVars

\* download_file(file_url, tmp_filename) and the raise that follows False.
Download ==
  /\ pc = "download"
  /\ \E outcome \in DownloadOutcomes :
       /\ downloaded' = outcome
       /\ files' = IF outcome = "failed_before_open" THEN files
                   ELSE files \cup {tmp_filename}
       /\ IF outcome = "ok"
            THEN /\ pc' = "extract"
                 /\ exc' = exc
            ELSE /\ pc' = "handler"
                 /\ exc' = DownloadError
  /\ UNCHANGED <<url_ext, file_extension, tmp_filename, head_requests, probe,
                 text, plumber, pypdf, pdftotext, invoked, extracted_text,
                 uncaught, result, posted, returned, exit_code>>
  /\ UNCHANGED cleanVars

\* extract_text_from_pdf, method 1.
Pdfplumber ==
  /\ pc = "extract"
  /\ ExtractorFor(file_extension) = "pdf"
  /\ \E run \in BackendRuns :
       LET t == AppendPages(<<>>, run.pages)
       IN /\ plumber' = run
          /\ text' = t
          /\ invoked' = invoked \cup {"pdfplumber"}
          /\ IF ~run.raised /\ NonBlank(t)
               THEN /\ extracted_text' = clean_text(t)
                    /\ pc' = "check"
               ELSE /\ extracted_text' = extracted_text
                    /\ pc' = "pdf2"
  /\ UNCHANGED <<url_ext, file_extension, tmp_filename, files, head_requests,
                 probe, downloaded, pypdf, pdftotext, exc, uncaught, result,
                 posted, returned, exit_code>>
  /\ UNCHANGED cleanVars

\* extract_text_from_pdf, method 2: it appends to the text method 1 left.
PyPDF2 ==
  /\ pc = "pdf2"
  /\ \E run \in BackendRuns :
       LET t == AppendPages(text, run.pages)
       IN /\ pypdf' = run
          /\ text' = t
          /\ invoked' = invoked \cup {"PyPDF2"}
          /\ IF ~run.raised /\ NonBlank(t)
               THEN /\ extracted_text' = clean_text(t)
                    /\ pc' = "check"
               ELSE /\ extracted_text' = extracted_text
                    /\ pc' = "pdf3"
  /\ UNCHANGED <<url_ext, file_extension, tmp_filename, files, head_requests,
                 probe, downloaded, plumber, pdftotext, exc, uncaught, result,
                 posted, returned, exit_code>>
  /\ UNCHANGED cleanVars

\* extract_text_from_pdf, method 3 and the final return "".
Pdftotext ==
  /\ pc = "pdf3"
  /\ \E run \in ToolRuns :
       /\ pdftotext' = run
       /\ invoked' = invoked \cup {"pdftotext"}
       /\ extracted_text' =
            IF ~run.raised /\ run.returncode = 0 /\ NonBlank(run.stdout)
              THEN clean_text(run.stdout)
              ELSE <<>>
       /\ pc' = "check"
  /\ UNCHANGED <<url_ext, file_extension, tmp_filename, files, head_requests,
                 probe, downloaded, text, plumber, pypdf, exc, uncaught,
                 result, posted, returned, exit_code>>
  /\ UNCHANGED cleanVars

\* The .docx branch of process_file.
ExtractDocx ==
  /\ pc = "extract"
  /\ ExtractorFor(file_extension) = "docx"
  /\ \E doc \in DocxDocuments :
       extracted_text' = extract_text_from_docx(doc)
  /\ invoked' = invoked \cup {"python-docx"}
  /\ pc' = "check"
  /\ UNCHANGED <<url_ext, file_extension, tmp_filename, files, head_requests,
                 probe, downloaded, text, plumber, pypdf, pdftotext, exc,
                 uncaught, result, posted, returned, exit_code>>
  /\ UNCHANGED cleanVars

\* The .doc branch of process_file.
ExtractDoc ==
  /\ pc = "extract"
  /\ ExtractorFor(file_extension) = "doc"
  /\ \E run \in ToolRuns :
       extracted_text' = extract_text_from_doc(run)
  /\ invoked' = invoked \cup {"antiword"}
  /\ pc' = "check"
  /\ UNCHANGED <<url_ext, file_extension, tmp_filename, files, head_requests,
                 probe, downloaded, text, plumber, pypdf, pdftotext, exc,
                 uncaught, result, posted, returned, exit_code>>
  /\ UNCHANGED cleanVars

\* The else branch of process_file: no extractor for the extension.
Unsupported ==
  /\ pc = "extract"
  /\ ExtractorFor(file_extension) = "unsupported"
  /\ exc' = UnsupportedError(file_extension)
  /\ pc' = "handler"
  /\ UNCHANGED <<url_ext, file_extension, tmp_filename, files, head_requests,
                 probe, downloaded, text, plumber, pypdf, pdftotext, invoked,
                 extracted_text, uncaught, result, posted, returned,
                 exit_code>>
  /\ UNCHANGED cleanVars

\* The emptiness test and the success result, with its time service request.
BuildResult ==
  /\ pc = "check"
  /\ IF NoTextExtracted(extracted_text)
       THEN /\ exc' = NoTextError
            /\ pc' = "handler"
            /\ result' = result
       ELSE \E reply \in TimeReplies :
              IF reply = "raise"
                THEN /\ exc' = TimeServiceError
                     /\ pc' = "handler"
                     /\ result' = result
                ELSE /\ exc' = exc
                     /\ pc' = "finally"
                     /\ result' = SuccessResult(extracted_text, file_extension,
                                                reply)
  /\ UNCHANGED <<url_ext, file_extension, tmp_filename, files, head_requests,
                 probe, downloaded, text, plumber, pypdf, pdftotext, invoked,
                 extracted_text, uncaught, posted, returned, exit_code>>
  /\ UNCHANGED cleanVars

\* The except block: the failure result, with its time service request; an
\* exception raised here leaves process_file after the finally block.
HandleException ==
  /\ pc = "handler"
  /\ \E reply \in TimeReplies :
       IF reply = "raise"
         THEN /\ uncaught' = TRUE
              /\ result' = result
         ELSE /\ uncaught' = uncaught
              /\ result' = FailureResult(exc, reply)
  /\ pc' = "finally"
  /\ UNCHANGED <<url_ext, file_extension, tmp_filename, files, head_requests,
                 probe, downloaded, text, plumber, pypdf, pdftotext, invoked,
                 extracted_text, exc, posted, returned, exit_code>>
  /\ UNCHANGED cleanVars

\* The finally block.
Finally ==
  /\ pc = "finally"
  /\ files' = IF tmp_filename \in files THEN files \ {tmp_filename}
              ELSE files
  /\ pc' = IF uncaught THEN "raised" ELSE "callback"
  /\ UNCHANGED <<url_ext, file_extension, tmp_filename, head_requests, probe,
                 downloaded, text, plumber, pypdf, pdftotext, invoked,
                 extracted_text, exc, uncaught, result, posted, returned,
                 exit_code>>
  /\ UNCHANGED cleanVars

\* The callback POST, its except block, and `return result`.
Callback ==
  /\ pc = "callback"
  /\ \E outcome \in CallbackOutcomes :
       /\ posted' = Append(posted, [body |-> result, outcome |-> outcome])
       /\ returned' = ReturnValue(result, outcome)
  /\ pc' = "returned"
  /\ UNCHANGED <<url_ext, file_extension, tmp_filename, files, head_requests,
                 probe, downloaded, text, plumber, pypdf, pdftotext, invoked,
                 extracted_text, exc, uncaught, result, exit_code>>
  /\ UNCHANGED cleanVars

\* __main__ after process_file returned.
Exit ==
  /\ pc = "returned"
  /\ exit_code' = ExitStatus(returned)
  /\ pc' = "exited"
  /\ UNCHANGED <<url_ext, file_extension, tmp_filename, files, head_requests,
                 probe, downloaded, text, plumber, pypdf, pdftotext, invoked,
                 extracted_text, exc, uncaught, result, posted, returned>>
  /\ UNCHANGED cleanVars

\* __main__ when process_file raised: the interpreter prints the traceback
\* and exits with status 1.
ExitOnException ==
  /\ pc = "raised"
  /\ exit_code' = 1
  /\ pc' = "exited"
  /\ UNCHANGED <<url_ext, file_extension, tmp_filename, files, head_requests,
                 probe, downloaded, text, plumber, pypdf, pdftotext, invoked,
                 extracted_text, exc, uncaught, result, posted, returned>>
  /\ UNCHANGED cleanVars

Next ==
  \/ BadInvocation
  \/ CreateTempFile
  \/ ProbeContentType
  \/ Download
  \/ Pdfplumber
  \/ PyPDF2
  \/ Pdftotext
  \/ ExtractDocx
  \/ ExtractDoc
  \/ Unsupported
  \/ BuildResult
  \/ HandleException
  \/ Finally
  \/ Callback
  \/ Exit
  \/ ExitOnException

Spec == Init /\ [][Next]_vars

\* ------------------------------------------- the cleaner on its own
\* clean_text applied to every text of at most MaxLen characters, twice.
InitClean ==
  /\ InitProc
  /\ cpc = "input"
  /\ clean_in \in TextsUpTo(MaxLen)
  /\ clean_once = <<>>
  /\ clean_twice = <<>>

CleanOnce ==
  /\ cpc = "input"
  /\ clean_once' = clean_text(clean_in)
  /\ cpc' = "once"
  /\ UNCHANGED <<clean_in, clean_twice>>
  /\ UNCHANGED procVars

CleanTwice ==
  /\ cpc = "once"
  /\ clean_twice' = clean_text(clean_once)
  /\ cpc' = "twice"
  /\ UNCHANGED <<clean_in, clean_once>>
  /\ UNCHANGED procVars

NextClean == CleanOnce \/ CleanTwice

SpecClean == InitClean /\ [][NextClean]_vars

\* ------------------------------------------------------------ properties
\* extract_text_from_pdf has returned.
PdfReturned == plumber # NotRun /\ pc \notin {"pdf2", "pdf3"}

\* process_file has ended, by return or by exception.
ProcessFileEnded == pc \in {"returned", "raised"} \/ (pc = "exited" /\ tmp_filename # "")

\* The cleaned text a page-by-page backend produces on its own.
CleanedAlone(run) == clean_text(AppendPages(<<>>, run.pages))

\* The resolved format is Unknown.
FormatUnknown == file_extension \notin {".pdf", ".docx", ".doc"}

SuccessFields ==
  {"success", "application_id", "extracted_text", "file_type", "text_length",
   "processing_info"}
FailureFields == {"success", "application_id", "error", "processing_info"}

\* The result records of the run: the one built, the ones posted, the one
\* returned.
ResultRecords ==
  ({result, returned} \cup {posted[i].body : i \in 1..Len(posted)}) \ {NoResult}

\* C1: when pdfplumber fails (it raised, perhaps after reading pages, or it
\* produced no text) and PyPDF2 succeeds, extract_text_from_pdf returns the
\* cleaned text PyPDF2 alone produces, and pdftotext is not invoked.
ClaimC1_FallbackEqualsBackend2Alone ==
  (/\ PdfReturned
   /\ pypdf # NotRun
   /\ ~pypdf.raised
   /\ CleanedAlone(pypdf) # <<>>)
    => /\ extracted_text = CleanedAlone(pypdf)
       /\ "pdftotext" \notin invoked

\* C2: extract_text_from_pdf stops only at a backend whose cleaned text is
\* non-empty: it returns the empty text only after all three backends ran,
\* so a backend whose raw output cleans to the empty string is followed by
\* the next backend.
ClaimC2_EmptyOnlyAfterAllThree ==
  (PdfReturned /\ extracted_text = <<>>)
    => {"pdfplumber", "PyPDF2", "pdftotext"} \subseteq invoked

\* C3: after process_file ended, by any path, none of the temporary files it
\* created is on disk: neither the one NamedTemporaryFile created nor the
\* one the download was written to.
ClaimC3_NoTempFileLeft ==
  ProcessFileEnded => (TmpName \notin files /\ tmp_filename \notin files)

\* C4: on every failure path of process_file the callback POST has been
\* attempted when process_file ends, also when the time service raises.
ClaimC4_FailureIsReported ==
  (ProcessFileEnded /\ exc # "") => Len(posted) >= 1

\* C5: clean_text(clean_text(x)) = clean_text(x) for every text x.
ClaimC5_CleanIdempotent ==
  cpc = "twice" => clean_twice = clean_once

\* C6: when the download succeeded, the format is PDF, DOCX or DOC and the
\* extractor returned non-empty cleaned text, process_file returns and
\* reports a result with success = true, whatever the time service and the
\* callback endpoint do.
ClaimC6_ObtainableTextSucceeds ==
  (/\ ProcessFileEnded
   /\ downloaded = "ok"
   /\ ~FormatUnknown
   /\ extracted_text # <<>>)
    => /\ returned # NoResult
       /\ returned.success
       /\ Len(posted) = 1
       /\ posted[1].body.success

\* C7: every result record has the shape of its success flag: with
\* success = true, a non-empty extracted_text, text_length its length, a
\* file_type and no error; with success = false, an error and none of
\* extracted_text, file_type, text_length.
TheoremC7_ResultShape ==
  \A r \in ResultRecords :
    IF r.success
      THEN /\ DOMAIN r = SuccessFields
           /\ r.extracted_text # <<>>
           /\ r.text_length = Len(r.extracted_text)
      ELSE DOMAIN r = FailureFields

WitnessC7_SuccessReturned ==
  /\ pc = "exited"
  /\ returned # NoResult
  /\ returned.success
  /\ returned.text_length > 1

\* C8 as stated: with the format Unknown, the result process_file builds is a
\* failure whose error names the unsupported extension, whatever the
\* outcome of the download, and no extractor is invoked.
ClaimC8_UnknownAlwaysUnsupported ==
  (FormatUnknown /\ result # NoResult)
    => /\ ~result.success
       /\ result.error = UnsupportedError(file_extension)
       /\ invoked = {}

\* C8 amended: with the format Unknown, no extractor is invoked and every
\* result process_file builds is a failure; its error names the unsupported
\* extension when the download succeeded and is the download error when the
\* download failed.
TheoremC8_UnknownFails ==
  (FormatUnknown /\ pc \notin {"start", "probe"} /\ tmp_filename # "")
    => /\ invoked = {}
       /\ \A r \in ResultRecords :
            /\ ~r.success
            /\ downloaded = "ok" => r.error = UnsupportedError(file_extension)
            /\ downloaded # "ok" => r.error = DownloadError

WitnessC8_UnsupportedReported ==
  /\ pc = "exited"
  /\ FormatUnknown
  /\ url_ext = ".txt"
  /\ downloaded = "ok"
  /\ returned # NoResult
  /\ returned.error = "Unsupported file type: .txt"

\* C9: a failed callback changes nothing: process_file returns the record it
\* tried to send, and the script exits 0 exactly when that record has
\* success = true and 1 otherwise.
TheoremC9_CallbackFailureIsSilent ==
  Len(posted) >= 1
    => /\ Len(posted) = 1
       /\ returned = posted[1].body
       /\ returned = result
       /\ pc = "exited" => exit_code = (IF posted[1].body.success THEN 0 ELSE 1)

WitnessC9_FailedCallbackExitZero ==
  /\ pc = "exited"
  /\ Len(posted) = 1
  /\ posted[1].outcome \in {"non2xx", "raise"}
  /\ posted[1].body.success
  /\ exit_code = 0

\* C10: the format comes from the lower-cased extension of the URL path
\* and, without one, from the content-type probe; the probe is sent at most
\* once and never again; a probe that raises or answers an unrecognised
\* content type leaves the format Unknown and raises nothing.
TheoremC10_FormatResolution ==
  /\ head_requests <= 1
  /\ (pc \notin {"start", "probe"} /\ tmp_filename # "")
       => /\ url_ext \in {".pdf", ".PDF"} => file_extension = ".pdf"
          /\ url_ext # "" => (head_requests = 0 /\ file_extension # "")
          /\ url_ext = ""
               => /\ head_requests = 1
                  /\ probe # NotRun
                  /\ (probe.raised \/ probe.content_type \in {"text/html", ""})
                       => (file_extension = "" /\ FormatUnknown)
                  /\ (~probe.raised /\ probe.content_type = "Application/PDF")
                       => file_extension = ".pdf"
          /\ pc = "download" => (~uncaught /\ exc = "")

WitnessC10_ProbeRaised ==
  /\ pc = "exited"
  /\ url_ext = ""
  /\ head_requests = 1
  /\ probe # NotRun
  /\ probe.raised
  /\ FormatUnknown
  /\ Len(posted) = 1

====
